---- MODULE Spec2Model ----
(***************************************************************************)
(* Model of synthetic_dataset_generator/pipelines/textcat.py: the three    *)
(* step factories (get_prompt_generator, get_textcat_generator,            *)
(* get_labeller_generator) and the code emitter generate_pipeline_code.    *)
(*                                                                         *)
(* Python strings are sequences of one-character strings, so that repr(),  *)
(* f-string interpolation and the reading of a string literal are          *)
(* computed character by character.  Floats with one decimal are kept in   *)
(* tenths (0.7 is 7), top_p in hundredths (0.95 is 95).  Integers wider    *)
(* than 31 bits are big-endian sequences of three base-2^16 digits.        *)
(***************************************************************************)
EXTENDS Integers, Sequences, FiniteSets, TLC

VARIABLES
    pc,            \* "idle", or "returned" while the caller holds a result
    call,          \* the invocation in progress: [op, args]
    ret,           \* the value the invocation returned
    token_index,   \* rotation state of the API-key pool
    keys_taken,    \* number of keys handed out by _get_next_api_key
    factory_calls, \* number of calls of the three factories
    textcat_calls, \* number of calls of get_textcat_generator
    rng_draws      \* number of random.randint draws made by this module

vars == <<pc, call, ret, token_index, keys_taken, factory_calls, textcat_calls, rng_draws>>

(***************************** bounds **************************************)
MaxLabels == 2
MaxNumLabels == 2
MaxNegLabels == 1
MaxCalls == 2

(***************************** characters **********************************)
DQ == "\""
SQ == "'"
BSL == "\\"
NL == "\n"

\* A Python value: None, or a str given by its characters.
PyNone == [t |-> "None", v |-> <<>>]
PyStr(s) == [t |-> "str", v |-> s]
PyInvalid == [t |-> "invalid", v |-> <<>>]

NoneText == <<"N", "o", "n", "e">>
Mixed == <<"m", "i", "x", "e", "d">>

RECURSIVE SeqsUpTo(_, _)
SeqsUpTo(S, n) ==
    IF n = 0 THEN {<<>>}
    ELSE LET shorter == SeqsUpTo(S, n - 1)
         IN  shorter \cup {Append(s, c) : s \in shorter, c \in S}

Contains(s, c) == \E i \in 1..Len(s) : s[i] = c

RECURSIVE Concat(_)
Concat(ss) == IF ss = <<>> THEN <<>> ELSE Head(ss) \o Concat(Tail(ss))

(***************************** repr(str) ***********************************)
\* The quote repr() chooses: double quotes only when the string holds a
\* single quote and no double quote.
ReprQuote(s) == IF Contains(s, SQ) /\ ~Contains(s, DQ) THEN DQ ELSE SQ

ReprChar(c, q) ==
    IF c = BSL THEN <<BSL, BSL>>
    ELSE IF c = q THEN <<BSL, c>>
    ELSE IF c = NL THEN <<BSL, "n">>
    ELSE <<c>>

repr(x) ==
    IF x = PyNone THEN NoneText
    ELSE LET s == x.v
             q == ReprQuote(s)
         IN  <<q>> \o Concat([i \in 1..Len(s) |-> ReprChar(s[i], q)]) \o <<q>>

\* f"{x}" of a value: str(x), which for a str is the characters themselves.
format(x) == IF x = PyNone THEN NoneText ELSE x.v

(***************************** str(int), str(float) ************************)
Digits == <<"0", "1", "2", "3", "4", "5", "6", "7", "8", "9">>
DigitChar(d) == Digits[d + 1]
DigitValue(c) == CHOOSE d \in 0..9 : Digits[d + 1] = c

RECURSIVE NatText(_)
NatText(n) == IF n < 10 THEN <<DigitChar(n)>> ELSE Append(NatText(n \div 10), DigitChar(n % 10))

IntText(n) == IF n < 0 THEN <<"-">> \o NatText(-n) ELSE NatText(n)

\* str() of a float with one decimal, given in tenths: 9 is "0.9", 10 is "1.0".
TenthsText(t) == NatText(t \div 10) \o <<".">> \o <<DigitChar(t % 10)>>

RECURSIVE NatValue(_)
NatValue(s) == IF Len(s) = 0 THEN 0 ELSE 10 * NatValue(SubSeq(s, 1, Len(s) - 1)) + DigitValue(s[Len(s)])

IntValue(s) == IF Len(s) > 0 /\ s[1] = "-" THEN 0 - NatValue(Tail(s)) ELSE NatValue(s)

TenthsValue(s) == 10 * NatValue(SubSeq(s, 1, Len(s) - 2)) + DigitValue(s[Len(s)])

(***************************** reading Python source ***********************)
\* What a backslash escape denotes inside a string literal.
Unescape(e) ==
    IF e = NL THEN <<>>
    ELSE IF e = "n" THEN <<NL>>
    ELSE IF e \in {DQ, SQ, BSL} THEN <<e>>
    ELSE <<BSL, e>>

\* Reads the body of a string literal of T opened with quote q, from
\* position i.  end is the position after the closing quote, 0 when the
\* literal is not closed; val is the string it denotes.
RECURSIVE ScanString(_, _, _, _, _)
ScanString(T, i, q, triple, acc) ==
    IF i > Len(T) THEN [end |-> 0, val |-> acc]
    ELSE LET c == T[i] IN
         IF c = BSL THEN
             IF i + 1 > Len(T) THEN [end |-> 0, val |-> acc]
             ELSE ScanString(T, i + 2, q, triple, acc \o Unescape(T[i + 1]))
         ELSE IF c = q THEN
             IF ~triple THEN [end |-> i + 1, val |-> acc]
             ELSE IF i + 2 <= Len(T) /\ T[i + 1] = q /\ T[i + 2] = q
                  THEN [end |-> i + 3, val |-> acc]
             ELSE ScanString(T, i + 1, q, triple, Append(acc, c))
         ELSE IF c = NL /\ ~triple THEN [end |-> 0, val |-> acc]
         ELSE ScanString(T, i + 1, q, triple, Append(acc, c))

\* The string literal that starts at position i of T.
StringAt(T, i) ==
    LET q == T[i]
        triple == i + 2 <= Len(T) /\ T[i + 1] = q /\ T[i + 2] = q
    IN  ScanString(T, IF triple THEN i + 3 ELSE i + 1, q, triple, <<>>)

\* The value of a source text that is one expression: None or one string
\* literal; anything else is PyInvalid.
EvalPyExpr(T) ==
    IF T = NoneText THEN PyNone
    ELSE IF Len(T) >= 2 /\ T[1] \in {DQ, SQ}
         THEN LET r == StringAt(T, 1)
              IN  IF r.end = Len(T) + 1 THEN PyStr(r.val) ELSE PyInvalid
    ELSE PyInvalid

\* Reads the logical lines of T, the text that follows `NAME = ` up to and
\* including the end of its line.  line is what the current logical line
\* holds so far ("empty", "name" or "str"); first is whether this is still
\* the assignment's line, whose adjacent string literals make up val.
RECURSIVE ScanLines(_, _, _, _, _)
ScanLines(T, i, line, first, val) ==
    IF i > Len(T) THEN [valid |-> TRUE, val |-> val]
    ELSE LET c == T[i] IN
         IF c = NL THEN
             IF first /\ line = "empty" THEN [valid |-> FALSE, val |-> val]
             ELSE ScanLines(T, i + 1, "empty", FALSE, val)
         ELSE IF c = BSL THEN
             IF i + 1 <= Len(T) /\ T[i + 1] = NL THEN ScanLines(T, i + 2, line, first, val)
             ELSE [valid |-> FALSE, val |-> val]
         ELSE IF c \in {DQ, SQ} THEN
             IF line = "name" THEN [valid |-> FALSE, val |-> val]
             ELSE LET r == StringAt(T, i)
                  IN  IF r.end = 0 THEN [valid |-> FALSE, val |-> val]
                      ELSE ScanLines(T, r.end, "str", first, IF first THEN val \o r.val ELSE val)
         ELSE IF line = "str" THEN [valid |-> FALSE, val |-> val]
         ELSE ScanLines(T, i + 1, "name", first, val)

\* The reading of the emitted line TEXT_CLASSIFICATION_TASK = <T>.
ReadAssignment(T) == ScanLines(T \o <<NL>>, 1, "empty", TRUE, <<>>)

(***************************** wide integers *******************************)
Base == 2^16
BigZero == <<0, 0, 0>>
\* 2**32
Pow2_32 == <<1, 0, 0>>

\* x - 1, for x > 0
BigPred(x) ==
    IF x[3] > 0 THEN <<x[1], x[2], x[3] - 1>>
    ELSE IF x[2] > 0 THEN <<x[1], x[2] - 1, Base - 1>>
    ELSE <<x[1] - 1, Base - 1, Base - 1>>

BigLeq(x, y) ==
    \/ x[1] < y[1]
    \/ x[1] = y[1] /\ x[2] < y[2]
    \/ x[1] = y[1] /\ x[2] = y[2] /\ x[3] <= y[3]

\* The integers the model lets a random draw produce: both ends of the
\* 32-bit range, 2^31, and the first integer past the range.
IntSamples == {BigZero, <<0, Base \div 2, 0>>, <<0, Base - 1, Base - 1>>, Pow2_32}

\* random.randint(a, b): any integer N with a <= N <= b.
randint(a, b) == {x \in IntSamples : BigLeq(a, x) /\ BigLeq(x, b)}

(***************************** program constants ***************************)
PromptTemperature == 8
PromptMaxNewTokens == 2048
SampleMaxNewTokens == 256
FullMaxNewTokens == 2048
TopK == 50
TopP == 95
LabellerTemperature == 7
LabellerMaxNewTokens == 2048
EmittedMaxNewTokens == 2048
EmittedTopK == 50
EmittedTopP == 95
EmittedLabellerTemperature == 8
EmittedLabellerMaxNewTokens == 2048

(***************************** external collaborators **********************)
\* The pool _get_next_api_key rotates over.
API_KEYS == <<"hf_key_1", "hf_key_2">>

\* The key _get_next_api_key hands out in rotation state i.
next_api_key(i) == API_KEYS[i + 1]

\* The rotation state after one key was handed out.
next_token_index(i) == (i + 1) % Len(API_KEYS)

Lower(c) == IF c = "K" THEN "k" ELSE IF c = "M" THEN "m" ELSE c

RECURSIVE Strip(_)
Strip(s) ==
    IF s = <<>> THEN s
    ELSE IF Head(s) = " " THEN Strip(Tail(s))
    ELSE IF s[Len(s)] = " " THEN Strip(SubSeq(s, 1, Len(s) - 1))
    ELSE s

Normalize(label) == Strip([i \in 1..Len(label) |-> Lower(label[i])])

RECURSIVE Dedupe(_, _)
Dedupe(ls, seen) ==
    IF ls = <<>> THEN <<>>
    ELSE IF Head(ls) \in seen THEN Dedupe(Tail(ls), seen)
    ELSE <<Head(ls)>> \o Dedupe(Tail(ls), seen \cup {Head(ls)})

\* utils.get_preprocess_labels: every label normalised, duplicates dropped,
\* the first occurrence of each kept in place.
get_preprocess_labels(labels) == Dedupe([i \in 1..Len(labels) |-> Normalize(labels[i])], {})

\* step.load()
load(step) == [step EXCEPT !.loaded = TRUE]

(***************************** the factories *******************************)
prompt_generator(api_key) ==
    load([step |-> "TextGeneration",
          llm |-> [api_key |-> api_key,
                   structured_output |-> "TextClassificationTask",
                   generation_kwargs |-> [temperature |-> PromptTemperature,
                                          max_new_tokens |-> PromptMaxNewTokens,
                                          do_sample |-> TRUE]],
          system_prompt |-> "PROMPT_CREATION_PROMPT",
          use_system_prompt |-> TRUE,
          loaded |-> FALSE])

\* The budget with the two cases exchanged.
max_new_tokens_swapped(is_sample) == IF is_sample THEN FullMaxNewTokens ELSE SampleMaxNewTokens

\* "max_new_tokens": 256 if is_sample else 2048
max_new_tokens_for(is_sample) == IF is_sample THEN SampleMaxNewTokens ELSE FullMaxNewTokens

\* None if v == "mixed" else v
mixed_to_none(v) == IF v = PyStr(Mixed) THEN PyNone ELSE v

\* The bounds of the seed draw: random.randint(0, 2**32 - 1).
seed_low == BigZero

\* The upper bound without its - 1.
seed_high_off_by_one == Pow2_32

seed_high == BigPred(Pow2_32)

textcat_generator(difficulty, clarity, temperature, is_sample, api_key, seed) ==
    load([step |-> "GenerateTextClassificationData",
          llm |-> [api_key |-> api_key,
                   generation_kwargs |-> [temperature |-> temperature,
                                          max_new_tokens |-> max_new_tokens_for(is_sample),
                                          do_sample |-> TRUE,
                                          top_k |-> TopK,
                                          top_p |-> TopP]],
          difficulty |-> mixed_to_none(difficulty),
          clarity |-> mixed_to_none(clarity),
          seed |-> seed,
          loaded |-> FALSE])

\* The labeller as it would be if it preprocessed its labels.
labeller_generator_preprocessing(system_prompt, labels, num_labels, api_key) ==
    load([step |-> "TextClassification",
          llm |-> [api_key |-> api_key,
                   generation_kwargs |-> [temperature |-> LabellerTemperature,
                                          max_new_tokens |-> LabellerMaxNewTokens]],
          context |-> system_prompt,
          available_labels |-> get_preprocess_labels(labels),
          n |-> num_labels,
          default_label |-> "unknown",
          loaded |-> FALSE])

labeller_generator(system_prompt, labels, num_labels, api_key) ==
    load([step |-> "TextClassification",
          llm |-> [api_key |-> api_key,
                   generation_kwargs |-> [temperature |-> LabellerTemperature,
                                          max_new_tokens |-> LabellerMaxNewTokens]],
          context |-> system_prompt,
          available_labels |-> labels,
          n |-> num_labels,
          default_label |-> "unknown",
          loaded |-> FALSE])

(***************************** the code emitter ****************************)
\* The condition of the import line.
import_single(num_labels) == num_labels = 1

tasks_import(num_labels) ==
    IF import_single(num_labels) THEN <<"GenerateTextClassificationData">>
    ELSE <<"GenerateTextClassificationData", "TextClassification">>

\* The parameter interpolated without repr().
mixed_to_none_unquoted(v) == IF v = PyStr(Mixed) THEN format(PyNone) ELSE format(v)

\* {None if v == "mixed" else repr(v)} inside the f-string
mixed_to_none_literal(v) == IF v = PyStr(Mixed) THEN format(PyNone) ELSE format(PyStr(repr(v)))

\* "{system_prompt}" inside the f-string
task_literal(system_prompt) == <<DQ>> \o format(PyStr(system_prompt)) \o <<DQ>>

\* seed=random.randint(0, 2**32 - 1), written out as source
emitted_seed == [call |-> "random.randint", low |-> BigZero, high |-> BigPred(Pow2_32)]

base_code(system_prompt, difficulty, clarity, num_labels, num_rows, temperature) ==
    [tasks_import |-> tasks_import(num_labels),
     task_literal |-> task_literal(system_prompt),
     api_key |-> "hf_xxx",
     task_generator |-> [step |-> "LoadDataFromDicts", task |-> "TEXT_CLASSIFICATION_TASK"],
     textcat_generation |->
        [step |-> "GenerateTextClassificationData",
         api_key |-> "os.environ[API_KEY]",
         temperature |-> TenthsText(temperature),
         max_new_tokens |-> EmittedMaxNewTokens,
         do_sample |-> TRUE,
         top_k |-> EmittedTopK,
         top_p |-> EmittedTopP,
         seed |-> emitted_seed,
         difficulty |-> mixed_to_none_literal(difficulty),
         clarity |-> mixed_to_none_literal(clarity),
         num_generations |-> IntText(num_rows),
         output_mappings |-> <<"input_text", "text">>]]

NoStep == [step |-> "absent"]

single_label_tail ==
    [keep_columns |-> <<"text", "label">>,
     textcat_labeller |-> NoStep,
     connect |-> <<"task_generator", "textcat_generation", "keep_columns">>]

\* The multi-label tail with the single-label column list.
multi_label_tail_keeping_label(num_labels, labels) ==
    [keep_columns |-> <<"text", "label">>,
     textcat_labeller |->
        [step |-> "TextClassification",
         api_key |-> "os.environ[API_KEY]",
         temperature |-> EmittedLabellerTemperature,
         max_new_tokens |-> EmittedLabellerMaxNewTokens,
         n |-> IntText(num_labels),
         available_labels |-> [i \in 1..Len(labels) |-> repr(PyStr(labels[i]))],
         context |-> "TEXT_CLASSIFICATION_TASK",
         default_label |-> "unknown"],
     connect |-> <<"task_generator", "textcat_generation", "keep_columns", "textcat_labeller">>]

\* {labels} inside the f-string: str() of a list, the repr of each element
labels_literal(labels) == [i \in 1..Len(labels) |-> repr(PyStr(labels[i]))]

multi_label_tail(num_labels, labels) ==
    [keep_columns |-> <<"text">>,
     textcat_labeller |->
        [step |-> "TextClassification",
         api_key |-> "os.environ[API_KEY]",
         temperature |-> EmittedLabellerTemperature,
         max_new_tokens |-> EmittedLabellerMaxNewTokens,
         n |-> IntText(num_labels),
         available_labels |-> labels_literal(labels),
         context |-> "TEXT_CLASSIFICATION_TASK",
         default_label |-> "unknown"],
     connect |-> <<"task_generator", "textcat_generation", "keep_columns", "textcat_labeller">>]

\* The branch as it would be if it tested for a labelling stage with num_labels > 1.
body_single_or_fewer(num_labels) == num_labels <= 1

\* if num_labels == 1:
body_single(num_labels) == num_labels = 1

\* The raw list, as given.
not_preprocessed(labels) == labels

\* labels = get_preprocess_labels(labels)
preprocessed(labels) == get_preprocess_labels(labels)

generate_pipeline_code(system_prompt, difficulty, clarity, labels, num_labels, num_rows, temperature) ==
    LET ls == preprocessed(labels)
        base == base_code(system_prompt, difficulty, clarity, num_labels, num_rows, temperature)
    IN  IF body_single(num_labels) THEN base @@ single_label_tail
        ELSE base @@ multi_label_tail(num_labels, ls)

(***************************** inputs **************************************)
\* system_prompt: the empty and a plain prompt, and prompts holding a double
\* quote, a backslash or a line feed.
Prompts == {<<>>, <<"n">>, <<DQ>>, <<BSL>>, <<NL>>, <<BSL, BSL>>, <<DQ, NL, DQ>>}
\* labels: lists of labels that differ in case and in surrounding blanks
LabelUniverse == {<<"k">>, <<"K">>, <<"m", " ">>}
LabelLists == SeqsUpTo(LabelUniverse, MaxLabels)
\* difficulty, clarity: the default None, "mixed", a level, and a value
\* holding a quote
Levels == {PyNone, PyStr(Mixed), PyStr(<<"P", "h", "D">>), PyStr(<<"o", "'">>)}
\* temperature, in tenths: 0.7 and 1.0
Temperatures == {7, 10}
NumLabelsValues == (0 - MaxNegLabels)..MaxNumLabels
\* num_rows: its default
NumRowsValues == {10}

(***************************** state machine *******************************)
NoCall == [op |-> "none", args |-> <<>>]
NoValue == [op |-> "none", val |-> <<>>]

Init ==
    /\ pc = "idle"
    /\ call = NoCall
    /\ ret = NoValue
    /\ token_index = 0
    /\ keys_taken = 0
    /\ factory_calls = 0
    /\ textcat_calls = 0
    /\ rng_draws = 0

\* _get_next_api_key(): one key leaves the pool and the rotation advances.
TakeKey ==
    /\ token_index' = next_token_index(token_index)
    /\ keys_taken' = keys_taken + 1

get_prompt_generator ==
    /\ pc = "idle"
    /\ factory_calls < MaxCalls
    /\ TakeKey
    /\ factory_calls' = factory_calls + 1
    /\ call' = [op |-> "get_prompt_generator", args |-> <<>>]
    /\ ret' = [op |-> "get_prompt_generator", val |-> prompt_generator(next_api_key(token_index))]
    /\ pc' = "returned"
    /\ UNCHANGED <<textcat_calls, rng_draws>>

get_textcat_generator_call(difficulty, clarity, temperature, is_sample) ==
    /\ pc = "idle"
    /\ factory_calls < MaxCalls
    /\ TakeKey
    /\ factory_calls' = factory_calls + 1
    /\ textcat_calls' = textcat_calls + 1
    /\ rng_draws' = rng_draws + 1
    /\ \E seed \in randint(seed_low, seed_high) :
          ret' = [op |-> "get_textcat_generator",
                  val |-> textcat_generator(difficulty, clarity, temperature, is_sample,
                                            next_api_key(token_index), seed)
                          @@ [seed_draw |-> rng_draws + 1]]
    /\ call' = [op |-> "get_textcat_generator",
                args |-> [difficulty |-> difficulty, clarity |-> clarity,
                          temperature |-> temperature, is_sample |-> is_sample]]
    /\ pc' = "returned"

get_textcat_generator ==
    /\ pc = "idle"
    /\ \E difficulty \in Levels, clarity \in Levels, temperature \in Temperatures, is_sample \in BOOLEAN :
          get_textcat_generator_call(difficulty, clarity, temperature, is_sample)

get_labeller_generator_call(system_prompt, labels, num_labels) ==
    /\ pc = "idle"
    /\ factory_calls < MaxCalls
    /\ TakeKey
    /\ factory_calls' = factory_calls + 1
    /\ call' = [op |-> "get_labeller_generator",
                args |-> [system_prompt |-> system_prompt, labels |-> labels,
                          num_labels |-> num_labels]]
    /\ ret' = [op |-> "get_labeller_generator",
               val |-> labeller_generator(system_prompt, labels, num_labels,
                                          next_api_key(token_index))]
    /\ pc' = "returned"
    /\ UNCHANGED <<textcat_calls, rng_draws>>

get_labeller_generator ==
    /\ pc = "idle"
    /\ \E system_prompt \in Prompts, labels \in LabelLists, num_labels \in NumLabelsValues :
          get_labeller_generator_call(system_prompt, labels, num_labels)

\* The emitter as it would be if it asked the pool for a key.
generate_pipeline_code_call_taking_key(system_prompt, difficulty, clarity, labels, num_labels, num_rows, temperature) ==
    /\ pc = "idle"
    /\ factory_calls < MaxCalls
    /\ TakeKey
    /\ call' = [op |-> "generate_pipeline_code",
                args |-> [system_prompt |-> system_prompt, difficulty |-> difficulty,
                          clarity |-> clarity, labels |-> labels, num_labels |-> num_labels,
                          num_rows |-> num_rows, temperature |-> temperature]]
    /\ ret' = [op |-> "generate_pipeline_code",
               val |-> generate_pipeline_code(system_prompt, difficulty, clarity, labels,
                                              num_labels, num_rows, temperature)]
    /\ pc' = "returned"
    /\ UNCHANGED <<factory_calls, textcat_calls, rng_draws>>

generate_pipeline_code_call(system_prompt, difficulty, clarity, labels, num_labels, num_rows, temperature) ==
    /\ pc = "idle"
    /\ call' = [op |-> "generate_pipeline_code",
                args |-> [system_prompt |-> system_prompt, difficulty |-> difficulty,
                          clarity |-> clarity, labels |-> labels, num_labels |-> num_labels,
                          num_rows |-> num_rows, temperature |-> temperature]]
    /\ ret' = [op |-> "generate_pipeline_code",
               val |-> generate_pipeline_code(system_prompt, difficulty, clarity, labels,
                                              num_labels, num_rows, temperature)]
    /\ pc' = "returned"
    /\ UNCHANGED <<token_index, keys_taken, factory_calls, textcat_calls, rng_draws>>

GeneratePipelineCode ==
    /\ pc = "idle"
    /\ \E system_prompt \in Prompts, difficulty \in Levels, clarity \in Levels,
          labels \in LabelLists, num_labels \in NumLabelsValues,
          num_rows \in NumRowsValues, temperature \in Temperatures :
           generate_pipeline_code_call(system_prompt, difficulty, clarity, labels,
                                       num_labels, num_rows, temperature)

\* The caller, outside this module, takes the returned object; the module
\* keeps nothing of it.
CallerTakesResult ==
    /\ pc = "returned"
    /\ pc' = "idle"
    /\ call' = NoCall
    /\ ret' = NoValue
    /\ UNCHANGED <<token_index, keys_taken, factory_calls, textcat_calls, rng_draws>>

Next ==
    \/ get_prompt_generator
    \/ get_textcat_generator
    \/ get_labeller_generator
    \/ GeneratePipelineCode
    \/ CallerTakesResult

Spec == Init /\ [][Next]_vars

(***************************** properties **********************************)
InSeq(x, s) == \E i \in 1..Len(s) : s[i] = x
ToSet(s) == {s[i] : i \in 1..Len(s)}
NoDuplicates(s) == \A i, j \in 1..Len(s) : s[i] = s[j] => i = j

IsEmit == ret.op = "generate_pipeline_code"
IsTextcat == ret.op = "get_textcat_generator"
IsLabeller == ret.op = "get_labeller_generator"
HasLabeller(script) == script.textcat_labeller # NoStep

\* 2**32 - 1
MaxUInt32 == <<0, 65535, 65535>>

\* The labels a list literal of the emitted script denotes.
LabelsDenoted(texts) == [i \in 1..Len(texts) |-> EvalPyExpr(texts[i])]

\* C1: the emitted script branches on num_labels.  With num_labels = 1 it
\* has no TextClassification step (not imported, not defined, not
\* connected) and KeepColumns keeps exactly {text, label}; with
\* num_labels > 1 it imports and defines a TextClassification step,
\* KeepColumns keeps exactly {text}, and the steps are connected in the
\* order task_generator, textcat_generation, keep_columns, textcat_labeller.
C1_BranchOnNumLabels ==
    IsEmit =>
        LET s == ret.val
            n == call.args.num_labels
        IN  /\ n = 1 =>
                /\ ~InSeq("TextClassification", s.tasks_import)
                /\ ~HasLabeller(s)
                /\ ~InSeq("textcat_labeller", s.connect)
                /\ ToSet(s.keep_columns) = {"text", "label"}
                /\ Len(s.keep_columns) = 2
            /\ n > 1 =>
                /\ InSeq("TextClassification", s.tasks_import)
                /\ HasLabeller(s)
                /\ s.textcat_labeller.step = "TextClassification"
                /\ s.keep_columns = <<"text">>
                /\ s.connect = <<"task_generator", "textcat_generation",
                                 "keep_columns", "textcat_labeller">>

C1_Witness ==
    /\ IsEmit
    /\ call.args.num_labels = 2
    /\ HasLabeller(ret.val)
    /\ ret.val.keep_columns = <<"text">>

\* C2: for every system_prompt the emitted text is valid source, and the
\* value it assigns to TEXT_CLASSIFICATION_TASK is the system_prompt.
C2_PromptIsValidLiteral ==
    IsEmit =>
        LET r == ReadAssignment(ret.val.task_literal)
        IN  /\ r.valid
            /\ r.val = call.args.system_prompt

\* C3: in the live generator and in the emitted script, for difficulty and
\* for clarity: "mixed" becomes None, and every other value is configured
\* as it was given (in the script, as the literal that denotes it), so a
\* parameter is never "mixed".
C3_MixedToNone ==
    /\ IsTextcat =>
        \A f \in {"difficulty", "clarity"} :
            /\ call.args[f] = PyStr(Mixed) => ret.val[f] = PyNone
            /\ call.args[f] # PyStr(Mixed) => ret.val[f] = call.args[f]
            /\ ret.val[f] # PyStr(Mixed)
    /\ IsEmit =>
        \A f \in {"difficulty", "clarity"} :
            LET p == EvalPyExpr(ret.val.textcat_generation[f])
            IN  /\ call.args[f] = PyStr(Mixed) => p = PyNone
                /\ call.args[f] # PyStr(Mixed) => p = call.args[f]
                /\ p # PyStr(Mixed)

C3_Witness ==
    /\ IsEmit
    /\ call.args.difficulty = PyStr(Mixed)
    /\ call.args.clarity = PyStr(<<"o", "'">>)
    /\ ret.val.textcat_generation.difficulty = NoneText
    /\ ret.val.textcat_generation.clarity = <<DQ, "o", "'", DQ>>

\* C4: the emitted script configures the same graph as the live factories
\* called with the same arguments: the generator step as
\* get_textcat_generator with is_sample = False, the labeller step as
\* get_labeller_generator(system_prompt, labels, num_labels).
C4_EmittedEqualsLive ==
    IsEmit =>
        LET a == call.args
            s == ret.val
            g == s.textcat_generation
            live == textcat_generator(a.difficulty, a.clarity, a.temperature, FALSE,
                                      "hf_xxx", BigZero)
            lab == labeller_generator(a.system_prompt, a.labels, a.num_labels, "hf_xxx")
            l == s.textcat_labeller
        IN  /\ TenthsValue(g.temperature) = live.llm.generation_kwargs.temperature
            /\ g.max_new_tokens = live.llm.generation_kwargs.max_new_tokens
            /\ g.do_sample = live.llm.generation_kwargs.do_sample
            /\ g.top_k = live.llm.generation_kwargs.top_k
            /\ g.top_p = live.llm.generation_kwargs.top_p
            /\ EvalPyExpr(g.difficulty) = live.difficulty
            /\ EvalPyExpr(g.clarity) = live.clarity
            /\ HasLabeller(s) =>
                /\ l.max_new_tokens = lab.llm.generation_kwargs.max_new_tokens
                /\ IntValue(l.n) = lab.n
                /\ l.default_label = lab.default_label
                /\ l.temperature = lab.llm.generation_kwargs.temperature
                /\ LabelsDenoted(l.available_labels)
                     = [i \in 1..Len(lab.available_labels) |-> PyStr(lab.available_labels[i])]
                /\ ReadAssignment(s.task_literal).val = lab.context

\* C5: get_textcat_generator sets max_new_tokens to 256 when is_sample and
\* to 2048 otherwise, and passes the temperature through.
C5_TokenBudget ==
    IsTextcat =>
        LET kw == ret.val.llm.generation_kwargs
        IN  /\ call.args.is_sample => kw.max_new_tokens = 256
            /\ ~call.args.is_sample => kw.max_new_tokens = 2048
            /\ kw.max_new_tokens \in {256, 2048}
            /\ kw.temperature = call.args.temperature

C5_Witness ==
    /\ IsTextcat
    /\ call.args.is_sample
    /\ ret.val.llm.generation_kwargs.max_new_tokens = 256
    /\ call.args.difficulty = PyStr(Mixed)

C7_LabellerPassThrough ==
    IsLabeller =>
        /\ ret.val.context = call.args.system_prompt
        /\ ret.val.available_labels = call.args.labels
        /\ ret.val.n = call.args.num_labels
        /\ ret.val.default_label = "unknown"
        /\ ret.val.loaded

C7_Witness ==
    /\ IsLabeller
    /\ call.args.labels = <<<<"K">>, <<"K">>>>
    /\ ret.val.available_labels = <<<<"K">>, <<"K">>>>
    /\ call.args.num_labels = 0
    /\ call.args.system_prompt = <<DQ>>

\* C8: every call of get_textcat_generator makes one draw of its own, the
\* seed it configures is that draw and lies in 0 .. 2^32 - 1, nothing else
\* draws, and the emitted script holds the draw itself, with the same
\* range, not a seed value.  Whatever calls came before, the next call may
\* draw either end of the range: no seed is fixed or carried over.
C8_FreshSeed ==
    /\ rng_draws = textcat_calls
    /\ IsTextcat =>
        /\ BigLeq(BigZero, ret.val.seed)
        /\ BigLeq(ret.val.seed, MaxUInt32)
        /\ ret.val.seed_draw = rng_draws
    /\ IsEmit =>
        ret.val.textcat_generation.seed
            = [call |-> "random.randint", low |-> BigZero, high |-> MaxUInt32]
    /\ (pc = "idle" /\ factory_calls < MaxCalls) =>
        \A s \in {BigZero, MaxUInt32} :
            ENABLED (get_textcat_generator /\ ret'.val.seed = s)

C8_Witness ==
    /\ IsTextcat
    /\ textcat_calls = 2
    /\ ret.val.seed = MaxUInt32

\* C9: the number of keys taken from the rotation is the number of factory
\* calls; the emitter takes none and leaves the rotation where it was, and
\* its script carries the placeholder "hf_xxx", never a key of the pool.
C9_KeysPerFactoryCall ==
    /\ keys_taken = factory_calls
    /\ token_index = factory_calls % Len(API_KEYS)
    /\ IsEmit =>
        /\ ret.val.api_key = "hf_xxx"
        /\ ~InSeq(ret.val.api_key, API_KEYS)
    /\ ret.op \in {"get_prompt_generator", "get_textcat_generator", "get_labeller_generator"} =>
        InSeq(ret.val.llm.api_key, API_KEYS)

C9_Witness ==
    /\ IsEmit
    /\ factory_calls = 2
    /\ keys_taken = 2

\* C10: the labelling stage is emitted for every num_labels other than 1,
\* zero and negative values included, with n written as that value; the
\* single-label script is emitted only for num_labels = 1; the import line
\* and the body agree on whether TextClassification is present.
C10_EveryOtherNumLabels ==
    IsEmit =>
        LET s == ret.val
            n == call.args.num_labels
        IN  /\ n # 1 =>
                /\ HasLabeller(s)
                /\ IntValue(s.textcat_labeller.n) = n
                /\ InSeq("textcat_labeller", s.connect)
            /\ ~HasLabeller(s) => n = 1
            /\ InSeq("TextClassification", s.tasks_import) <=> HasLabeller(s)

C10_Witness ==
    /\ IsEmit
    /\ call.args.num_labels = 0 - 1
    /\ HasLabeller(ret.val)
    /\ ret.val.textcat_labeller.n = <<"-", "1">>

====
